---------------------------- MODULE Spec2Model ----------------------------
(***************************************************************************)
(* A model of lava_api/business.py: the LavaBusinessAPI client.            *)
(*                                                                         *)
(*   generate_signature   canonical serialisation + HMAC-SHA256            *)
(*   create_invoice       builds and signs the request, classifies the     *)
(*                        gateway's response                               *)
(*   handle_webhook       verifies the signature of a webhook, then parses *)
(*                        its body                                         *)
(*                                                                         *)
(* A Python value is a record [t, v, d]: t is its Python type, v its text, *)
(* d the entries of a dict (empty otherwise).  A Python dict is the        *)
(* sequence of its <<key, value>> entries in insertion order, keys         *)
(* distinct.                                                               *)
(*                                                                         *)
(* The client keeps no state between calls but its secret key, so a        *)
(* behaviour follows one call of create_invoice or handle_webhook from the *)
(* constructed client to its outcome; generate_signature, which the claims *)
(* compare across calls, may be called repeatedly.                         *)
(***************************************************************************)
EXTENDS Integers, Sequences, FiniteSets, TLC

VARIABLES
    secret_key,   \* LavaBusinessAPI.secret_key
    pc,           \* where the client's current call stands
    call,         \* the step last taken: the operation and what it was given
    request,      \* the JSON body POSTed to the gateway, while in flight
    result,       \* what the call returned or raised
    prev          \* the previous generate_signature call: key, fields, digest

vars == <<secret_key, pc, call, request, result, prev>>

---------------------------------------------------------------------------
(* Bounds of the model *)

\* the longest field map handed to generate_signature directly
MaxFields == 2
\* the most entries in a webhook's header mapping
MaxHeaders == 2
\* the most fields by which a webhook body departs from a paid webhook
MaxDeviations == 2
\* the most keys the 'data' object of a response lacks
MaxMissing == 2

---------------------------------------------------------------------------
(* Python values *)

PyStr(s)   == [t |-> "str", v |-> s, d |-> <<>>]
PyInt(s)   == [t |-> "int", v |-> s, d |-> <<>>]
PyFloat(s) == [t |-> "float", v |-> s, d |-> <<>>]
PyList(s)  == [t |-> "list", v |-> s, d |-> <<>>]
PyDict(es) == [t |-> "dict", v |-> "", d |-> es]
PyNone     == [t |-> "NoneType", v |-> "None", d |-> <<>>]
PyDateTime(s) == [t |-> "datetime", v |-> s, d |-> <<>>]

\* datetime.datetime.now()
Now == PyDateTime("now")

(* dict operations *)

Keys(dict) == {dict[i][1] : i \in 1..Len(dict)}

Has(dict, k) == k \in Keys(dict)

Index(dict, k) == CHOOSE i \in 1..Len(dict) : dict[i][1] = k

\* dict[k], for a key the dict has
Item(dict, k) == dict[Index(dict, k)][2]

\* dict.get(k, default)
Get(dict, k, default) == IF Has(dict, k) THEN Item(dict, k) ELSE default

\* dict[k] = val: a new key goes last, a known key keeps its place
SetItem(dict, k, val) ==
    IF Has(dict, k)
    THEN [dict EXCEPT ![Index(dict, k)] = <<k, val>>]
    ELSE Append(dict, <<k, val>>)

\* the dict without key k
Without(dict, k) == SelectSeq(dict, LAMBDA e : e[1] # k)

Entries(dict) == {dict[i] : i \in 1..Len(dict)}

---------------------------------------------------------------------------
(* generate_signature *)

\* Every key of the model in the order of Python's str.__lt__ (code points).
KeyOrder ==
    <<"amount", "comment", "credited", "customFields", "custom_field",
      "excludeService", "expire", "failUrl", "hookUrl", "includeService",
      "invoice_id", "orderId", "order_id", "payed", "shopId", "signature",
      "status", "successUrl", "sum">>

Rank(k) == CHOOSE i \in 1..Len(KeyOrder) : KeyOrder[i] = k

\* (k1, v1) < (k2, v2) on the items of a dict: the keys differ, so they decide
ItemLess(a, b) == Rank(a[1]) < Rank(b[1])

RECURSIVE InsertSorted(_, _)
InsertSorted(e, sorted) ==
    IF sorted = <<>> THEN <<e>>
    ELSE IF ItemLess(e, Head(sorted)) THEN <<e>> \o sorted
    ELSE <<Head(sorted)>> \o InsertSorted(e, Tail(sorted))

RECURSIVE SortItems(_)
SortItems(items) ==
    IF items = <<>> THEN <<>>
    ELSE InsertSorted(Head(items), SortItems(Tail(items)))

\* the sort left out: the items in insertion order
UnsortedItems(fields) == fields

\* OrderedDict(sorted(fields.items()))
SortedItems(fields) == SortItems(fields)

\* the JSON type json.dumps writes a Python value as
JsonType(t) ==
    CASE t = "str" -> "string"
      [] t \in {"int", "float"} -> "number"
      [] t = "NoneType" -> "null"
      [] t = "list" -> "array"
      [] t = "dict" -> "object"

\* json.dumps(odict, separators=(',', ':')): the members in the dict's order,
\* each a key and its value's JSON text
JsonDumps(odict) ==
    [i \in 1..Len(odict) |->
        <<odict[i][1], [odict[i][2] EXCEPT !.t = JsonType(odict[i][2].t)]>>]

\* hmac.new(key, msg, sha256).hexdigest(): a string that determines key and
\* message (no collisions)
HexDigest(key, msg) ==
    [t |-> "str", v |-> "hmac-sha256", d |-> << <<key, PyNone>> >> \o msg]

generate_signature(key, fields) == HexDigest(key, JsonDumps(SortedItems(fields)))

---------------------------------------------------------------------------
(* What a call has not produced *)

NoCall == [op |-> "none"]
NoRequest == <<>>
NoResult == [kind |-> "none"]
NoPrev == [called |-> FALSE]

Return(val) == [kind |-> "return", value |-> val]
Raise(exc) == [kind |-> "raise", exc |-> exc]
RaiseWith(exc, message, code) ==
    [kind |-> "raise", exc |-> exc, message |-> message, code |-> code]

Returned == result.kind = "return"
Raised(exc) == result.kind = "raise" /\ result.exc = exc

---------------------------------------------------------------------------
(* Inputs *)

SecretKeys == {"key-A", "key-B"}

\* the sequences over S of length n without a repeated first component
RECURSIVE DictsOfLen(_, _, _)
DictsOfLen(keys, vals, n) ==
    IF n = 0 THEN {<<>>}
    ELSE UNION {{<<<<k, val>>>> \o rest :
                    rest \in DictsOfLen(keys \ {k}, vals, n - 1)} :
                <<k, val>> \in keys \X vals}

DictsUpTo(keys, vals, n) == UNION {DictsOfLen(keys, vals, m) : m \in 0..n}

SignKeys == {"orderId", "shopId", "sum"}
SignValues == {PyStr("6555215"), PyInt("30")}
FieldMaps == DictsUpTo(SignKeys, SignValues, MaxFields)

---------------------------------------------------------------------------
(* create_invoice: the request *)

\* generate_random_order_id() results: YYYYMMDD-rrrr-HHMMSS-rrrr
GeneratedOrderIds == {"20240101-0042-120000-0007"}

Supplied(val) == {PyNone, val}

\* the arguments of create_invoice; PyNone is an argument left out
InvoiceArgs ==
    [amount : {PyInt("30")},
     shop_id : {PyStr("shop-1")},
     order_id : Supplied(PyStr("6555215")),
     expire : Supplied(PyInt("120")),
     custom_field : Supplied(PyStr("some_json_data")),
     comment : Supplied(PyStr("Comment")),
     webhook_url : Supplied(PyStr("https://shop/hook")),
     fail_url : Supplied(PyStr("https://shop/fail")),
     success_url : Supplied(PyStr("https://shop/ok")),
     include_service : Supplied(PyList("[\"card\"]")),
     exclude_service : Supplied(PyList("[\"qiwi\"]"))]

\* an optional argument written even when it is None
SetAlways(fields, k, arg) == SetItem(fields, k, arg)

\* if arg is not None: fields[k] = arg
SetIfSupplied(fields, k, arg) ==
    IF arg.t # "NoneType" THEN SetItem(fields, k, arg) ELSE fields

\* the optional arguments, in the order the code adds them
OptionalFields(fields, args) ==
    LET f1 == SetIfSupplied(fields, "customFields", args.custom_field)
        f2 == SetIfSupplied(f1, "comment", args.comment)
        f3 == SetIfSupplied(f2, "hookUrl", args.webhook_url)
        f4 == SetIfSupplied(f3, "failUrl", args.fail_url)
        f5 == SetIfSupplied(f4, "successUrl", args.success_url)
        f6 == SetIfSupplied(f5, "expire", args.expire)
        f7 == SetIfSupplied(f6, "includeService", args.include_service)
    IN  SetIfSupplied(f7, "excludeService", args.exclude_service)

\* the fields create_invoice signs: lines 161-182
InvoiceFields(args, generated) ==
    LET order_id == IF args.order_id.t = "NoneType"
                    THEN PyStr(generated) ELSE args.order_id
        fields == <<<<"orderId", order_id>>, <<"shopId", args.shop_id>>,
                    <<"sum", args.amount>>>>
    IN  OptionalFields(fields, args)

\* the body create_invoice posts: the fields and their signature
InvoiceRequest(key, args, generated) ==
    LET fields == InvoiceFields(args, generated)
    IN  SetItem(fields, "signature", generate_signature(key, fields))

---------------------------------------------------------------------------
(* create_invoice: the response *)

\* the keys of 'data' that InvoiceInfo reads with data[key]
RequiredDataKeys == {"id", "amount", "expired", "status", "shop_id", "url"}

\* a complete 'data' object
FullData ==
    <<<<"id", PyStr("inv-1")>>, <<"amount", PyInt("30")>>,
      <<"expired", PyStr("2024-01-01 14:00:00")>>, <<"status", PyInt("1")>>,
      <<"shop_id", PyStr("shop-1")>>, <<"merchantName", PyStr("Lava shop")>>,
      <<"url", PyStr("https://pay.lava.ru/invoice/inv-1")>>,
      <<"comment", PyStr("Thanks")>>,
      <<"include_service", PyList("[\"card\"]")>>,
      <<"exclude_service", PyList("[\"qiwi\"]")>>>>

\* 'data' objects lacking at most MaxMissing keys
DataObjects ==
    {SelectSeq(FullData, LAMBDA e : e[1] \notin missing) :
        missing \in {m \in SUBSET Keys(FullData) : Cardinality(m) <= MaxMissing}}

Absent == [t |-> "absent", v |-> "", d |-> <<>>]

StatusValues ==
    {Absent, PyInt("200"), PyInt("401"), PyInt("422"), PyInt("500"), PyStr("200")}
ErrorValues ==
    {Absent, PyStr("Unauthorized"),
     PyDict(<<<<"sum", PyList("[\"The sum must be at least 1\"]")>>>>)}
DataValues ==
    {Absent, PyNone, PyStr("ok")} \cup {PyDict(data) : data \in DataObjects}

\* a JSON object of the members that are not absent
JsonObject(members) == PyDict(SelectSeq(members, LAMBDA e : e[2].t # "absent"))

\* what response.json() meets: a body that is no JSON, a JSON array, or a
\* JSON object with status, data and error
Responses ==
    {[json |-> FALSE, body |-> PyNone], [json |-> TRUE, body |-> PyList("[]")]}
    \cup
    {[json |-> TRUE,
      body |-> JsonObject(<<<<"status", st>>, <<"data", da>>, <<"error", er>>>>)] :
        st \in StatusValues, da \in DataValues, er \in ErrorValues}

\* Python's ==  between a JSON value and an int literal
EqualsInt(val, n) == val.t \in {"int", "float"} /\ val.v = n

\* x if (x := data.get(k, None)) is not None else []
ListOrEmpty(data, k) ==
    LET x == Get(data, k, PyNone)
    IN  IF x.t # "NoneType" THEN x ELSE PyList("[]")

\* InvoiceInfo(...) reading merchantName with data["merchantName"]
InvoiceInfoStrict(invoice_data) ==
    IF invoice_data.t # "dict" THEN Raise("TypeError")
    ELSE IF ~ ((RequiredDataKeys \cup {"merchantName"}) \subseteq Keys(invoice_data.d))
    THEN Raise("KeyError")
    ELSE LET data == invoice_data.d
         IN  Return([invoice_id |-> Item(data, "id"),
                     amount |-> Item(data, "amount"),
                     expired |-> Item(data, "expired"),
                     status |-> Item(data, "status"),
                     shop_id |-> Item(data, "shop_id"),
                     merchant_name |-> Item(data, "merchantName"),
                     url |-> Item(data, "url"),
                     comment |-> Get(data, "comment", PyStr("Comment")),
                     include_service |-> ListOrEmpty(data, "include_service"),
                     exclude_service |-> ListOrEmpty(data, "exclude_service")])

\* the InvoiceInfo(...) call of lines 199-210, KeyError included
InvoiceInfo(invoice_data) ==
    IF invoice_data.t # "dict" THEN Raise("TypeError")
    ELSE IF ~ (RequiredDataKeys \subseteq Keys(invoice_data.d))
    THEN Raise("KeyError")
    ELSE LET data == invoice_data.d
         IN  Return([invoice_id |-> Item(data, "id"),
                     amount |-> Item(data, "amount"),
                     expired |-> Item(data, "expired"),
                     status |-> Item(data, "status"),
                     shop_id |-> Item(data, "shop_id"),
                     merchant_name |-> Get(data, "merchantName", PyStr("Merchant")),
                     url |-> Item(data, "url"),
                     comment |-> Get(data, "comment", PyStr("Comment")),
                     include_service |-> ListOrEmpty(data, "include_service"),
                     exclude_service |-> ListOrEmpty(data, "exclude_service")])

\* the status 200 branch: lines 193-214
SuccessBranch(response_json) ==
    LET invoice_data == Get(response_json, "data", PyNone)
    IN  IF invoice_data.t = "NoneType" THEN Raise("InvalidResponseException")
        ELSE LET made == InvoiceInfo(invoice_data)
             IN  IF made.kind = "raise" /\ made.exc = "KeyError"
                 THEN Raise("InvalidResponseException")
                 ELSE made

\* the status 422 branch: lines 216-221
ParameterBranch(response_json, request_status) ==
    LET error == Get(response_json, "error", PyStr(""))
    IN  IF error.t = "dict"
        THEN RaiseWith("InvalidParameterException",
                       Get(response_json, "error", PyStr("")), request_status)
        ELSE Raise("InvalidResponseException")

\* the classification with the 401 branch missing
ClassifyWithout401(response_json, request_status) ==
    IF EqualsInt(request_status, "200") THEN SuccessBranch(response_json)
    ELSE IF EqualsInt(request_status, "422")
    THEN ParameterBranch(response_json, request_status)
    ELSE RaiseWith("CreateInvoiceException",
                   Get(response_json, "error", PyStr("")), request_status)

\* the if/elif chain on request_status: lines 192-225
Classify(response_json, request_status) ==
    IF EqualsInt(request_status, "200") THEN SuccessBranch(response_json)
    ELSE IF EqualsInt(request_status, "422")
    THEN ParameterBranch(response_json, request_status)
    ELSE IF EqualsInt(request_status, "401")
    THEN RaiseWith("InvalidSignatureException",
                   Get(response_json, "error", PyStr("")), request_status)
    ELSE RaiseWith("CreateInvoiceException",
                   Get(response_json, "error", PyStr("")), request_status)

\* the body of the try: lines 190-225
TryResponse(response) ==
    IF ~ response.json THEN Raise("JSONDecodeError")
    ELSE IF response.body.t # "dict" THEN Raise("AttributeError")
    ELSE Classify(response.body.d, Get(response.body.d, "status", PyInt("0")))

CreationErrors ==
    {"InvalidParameterException", "InvalidSignatureException",
     "CreateInvoiceException"}

\* handlers that let every exception through as it is
ExceptClausesMissing(outcome) == outcome

\* the except clauses: lines 227-232
ExceptClauses(outcome) ==
    IF outcome.kind = "raise" /\ outcome.exc \notin CreationErrors
    THEN Raise("InvalidResponseException")
    ELSE outcome

\* what create_invoice does with the response: lines 189-232
HandleResponse(response) == ExceptClauses(TryResponse(response))

---------------------------------------------------------------------------
(* handle_webhook *)

\* str.lower() on the header names of the model
Lower(name) ==
    CASE name \in {"Authorization", "AUTHORIZATION", "authorization"}
           -> "authorization"
      [] name = "X-Request-Id" -> "x-request-id"

\* {k.lower(): v for k, v in headers.items()}: a later entry replaces an
\* earlier one of the same lowered name
RECURSIVE LowerKeys(_, _)
LowerKeys(items, acc) ==
    IF items = <<>> THEN acc
    ELSE LowerKeys(Tail(items), SetItem(acc, Lower(Head(items)[1]), Head(items)[2]))

LowerHeaders(headers) == LowerKeys(headers, <<>>)

\* the strings float() accepts, with the float each denotes
NumericStrings == {"30.00"}

FloatOfText(text) ==
    CASE text = "30.00" -> "30.0"
      [] text = "30" -> "30.0"
      [] OTHER -> text

\* float(val)
ToFloat(val) ==
    CASE val.t = "float" -> Return(val)
      [] val.t = "int" -> Return(PyFloat(FloatOfText(val.v)))
      [] val.t = "str" ->
            IF val.v \in NumericStrings
            THEN Return(PyFloat(FloatOfText(val.v)))
            ELSE Raise("ValueError")
      [] OTHER -> Raise("TypeError")

\* the strings of the pattern %Y-%m-%d %H:%M:%S
TimeStrings == {"2023-05-01 12:00:00"}

\* datetime.datetime.strptime(val, "%Y-%m-%d %H:%M:%S")
Strptime(val) ==
    IF val.t # "str" THEN Raise("TypeError")
    ELSE IF val.v \in TimeStrings THEN Return(PyDateTime(val.v))
    ELSE Raise("ValueError")

\* received_data[k]
Subscript(received_data, k) ==
    IF Has(received_data, k) THEN Return(Item(received_data, k))
    ELSE Raise("KeyError")

\* float(received_data[k])
FloatItem(received_data, k) ==
    LET got == Subscript(received_data, k)
    IN  IF got.kind = "raise" THEN got ELSE ToFloat(got.value)

\* the inner try of lines 257-260
PayTime(received_data) ==
    LET got == Subscript(received_data, "payed")
        parsed == IF got.kind = "raise" THEN got ELSE Strptime(got.value)
    IN  IF parsed.kind = "raise" /\ parsed.exc \in {"ValueError", "KeyError"}
        THEN Return(Now)
        ELSE parsed

\* the first exception among the outcomes, evaluated left to right
RECURSIVE FirstRaise(_)
FirstRaise(outcomes) ==
    IF outcomes = <<>> THEN NoResult
    ELSE IF Head(outcomes).kind = "raise" THEN Head(outcomes)
    ELSE FirstRaise(Tail(outcomes))

\* x if (x := received_data.get("custom_field"), None) is not None else "":
\* the condition tests a tuple, which is never None
CustomField(received_data) == Get(received_data, "custom_field", PyNone)

\* the body of the outer try: lines 256-272
TryWebhook(received_data) ==
    LET pay_time == PayTime(received_data)
        invoice_id == Subscript(received_data, "invoice_id")
        status == Subscript(received_data, "status")
        amount == FloatItem(received_data, "amount")
        credited == FloatItem(received_data, "credited")
        raised == FirstRaise(<<pay_time, invoice_id, status, amount, credited>>)
    IN  IF raised.kind = "raise" THEN raised
        ELSE Return([invoice_id |-> invoice_id.value,
                     order_id |-> Get(received_data, "order_id", PyStr("")),
                     status |-> status.value,
                     payed |-> (status.value.t = "str"
                                /\ status.value.v = "success"),
                     pay_time |-> pay_time.value,
                     amount |-> amount.value,
                     credited |-> credited.value,
                     custom_field |-> CustomField(received_data)])

\* lines 255-278: a KeyError becomes InvalidResponseException
ParseWebhook(received_data) ==
    LET outcome == TryWebhook(received_data)
    IN  IF outcome.kind = "raise" /\ outcome.exc = "KeyError"
        THEN Raise("InvalidResponseException")
        ELSE outcome

\* the body parsed before the signature is looked at
handle_webhook_parse_first(key, received_data, headers) ==
    LET lowered == LowerHeaders(headers)
        parsed == ParseWebhook(received_data)
    IN  IF parsed.kind = "raise" THEN parsed
        ELSE IF ~ Has(lowered, "authorization")
        THEN Raise("InvalidWebhookSignatureException")
        ELSE IF Item(lowered, "authorization")
                  # generate_signature(key, received_data)
        THEN Raise("InvalidWebhookSignatureException")
        ELSE parsed

\* handle_webhook: lines 244-278
handle_webhook(key, received_data, headers) ==
    LET lowered == LowerHeaders(headers)
    IN  IF ~ Has(lowered, "authorization")
        THEN Raise("InvalidWebhookSignatureException")
        ELSE IF Item(lowered, "authorization")
                  # generate_signature(key, received_data)
        THEN Raise("InvalidWebhookSignatureException")
        ELSE ParseWebhook(received_data)

(* webhooks received *)

\* the webhook of a paid invoice, in the order its members arrive
PaidWebhook ==
    <<<<"invoice_id", PyStr("inv-1")>>, <<"order_id", PyStr("6555215")>>,
      <<"status", PyStr("success")>>, <<"payed", PyStr("2023-05-01 12:00:00")>>,
      <<"amount", PyFloat("30.0")>>, <<"custom_field", PyStr("some_json_data")>>,
      <<"credited", PyFloat("28.5")>>>>

\* what a member may be instead: left out, or another value
Deviation(k) ==
    CASE k = "status" -> {Absent, PyStr("expired")}
      [] k = "payed" ->
            {Absent, PyStr("01.05.2023 12:00"), PyInt("1682942400"), PyNone}
      [] k = "amount" ->
            {Absent, PyStr("30.00"), PyStr("thirty"), PyNone, PyList("[\"30\"]")}
      [] k = "credited" -> {Absent, PyStr("n/a"), PyNone}
      [] OTHER -> {Absent}

\* the paid webhook with the members of `keys` replaced as `alt` says
Deviate(keys, alt) ==
    SelectSeq([i \in 1..Len(PaidWebhook) |->
                  IF PaidWebhook[i][1] \in keys
                  THEN <<PaidWebhook[i][1], alt[PaidWebhook[i][1]]>>
                  ELSE PaidWebhook[i]],
              LAMBDA e : e[2].t # "absent")

\* bodies departing from the paid webhook in at most MaxDeviations members
WebhookBodies ==
    UNION {{Deviate(keys, alt) :
                alt \in {a \in [keys -> UNION {Deviation(k) : k \in keys}] :
                            \A k \in keys : a[k] \in Deviation(k)}} :
           keys \in {ks \in SUBSET Keys(PaidWebhook) : Cardinality(ks) <= MaxDeviations}}

HeaderNames == {"Authorization", "authorization", "X-Request-Id"}

\* header mappings of at most MaxHeaders entries; a value is the signature of
\* the body under the client's key or under another key
HeaderShapes == DictsUpTo(HeaderNames, {"genuine", "forged"}, MaxHeaders)

OtherKey(key) == CHOOSE k \in SecretKeys : k # key

HeadersFor(key, body) ==
    LET genuine == generate_signature(key, body)
        forged == generate_signature(OtherKey(key), body)
    IN  {[i \in 1..Len(shape) |->
            <<shape[i][1], IF shape[i][2] = "genuine" THEN genuine ELSE forged>>] :
         shape \in HeaderShapes}

---------------------------------------------------------------------------
(* The client *)

\* LavaBusinessAPI.__init__
Init ==
    /\ secret_key \in SecretKeys
    /\ pc = "idle"
    /\ call = NoCall
    /\ request = NoRequest
    /\ result = NoResult
    /\ prev = NoPrev

\* a call of generate_signature(fields); it may be called again and again
GenerateSignature ==
    /\ pc = "idle"
    /\ call.op \in {"none", "generate_signature"}
    /\ \E fields \in FieldMaps :
        /\ call' = [op |-> "generate_signature", fields |-> fields]
        /\ result' = Return(generate_signature(secret_key, fields))
    /\ prev' = IF call.op = "generate_signature"
               THEN [called |-> TRUE, key |-> secret_key,
                     fields |-> call.fields, digest |-> result.value]
               ELSE NoPrev
    /\ UNCHANGED <<secret_key, pc, request>>

\* create_invoice up to the POST of the signed body
CreateInvoiceSend ==
    /\ pc = "idle"
    /\ call.op = "none"
    /\ \E args \in InvoiceArgs, generated \in GeneratedOrderIds :
        /\ call' = [op |-> "create_invoice", args |-> args]
        /\ request' = InvoiceRequest(secret_key, args, generated)
    /\ pc' = "awaiting_response"
    /\ UNCHANGED <<secret_key, result, prev>>

\* create_invoice from the response on
CreateInvoiceReceive ==
    /\ pc = "awaiting_response"
    /\ \E response \in Responses :
        /\ call' = [op |-> "create_invoice", response |-> response]
        /\ result' = HandleResponse(response)
    /\ request' = NoRequest
    /\ pc' = "done"
    /\ UNCHANGED <<secret_key, prev>>

\* a call of handle_webhook(received_data, headers)
HandleWebhook ==
    /\ pc = "idle"
    /\ call.op = "none"
    /\ \E received_data \in WebhookBodies :
        \E headers \in HeadersFor(secret_key, received_data) :
            /\ call' = [op |-> "handle_webhook",
                        received_data |-> received_data, headers |-> headers]
            /\ result' = handle_webhook(secret_key, received_data, headers)
    /\ pc' = "done"
    /\ UNCHANGED <<secret_key, request, prev>>

NextSign == GenerateSignature

SpecSign == Init /\ [][NextSign]_vars

NextInvoice == CreateInvoiceSend \/ CreateInvoiceReceive

SpecInvoice == Init /\ [][NextInvoice]_vars

NextWebhook == HandleWebhook

SpecWebhook == Init /\ [][NextWebhook]_vars

Next == GenerateSignature \/ CreateInvoiceSend \/ CreateInvoiceReceive
            \/ HandleWebhook

Spec == Init /\ [][Next]_vars

---------------------------------------------------------------------------
(* Claims about create_invoice *)

\* the key each optional argument is sent under
WireKey ==
    [expire |-> "expire", custom_field |-> "customFields",
     comment |-> "comment", webhook_url |-> "hookUrl", fail_url |-> "failUrl",
     success_url |-> "successUrl", include_service |-> "includeService",
     exclude_service |-> "excludeService"]

OptionalArgs == DOMAIN WireKey

SuppliedArgs(args) == {a \in OptionalArgs : args[a].t # "NoneType"}

InFlight == pc = "awaiting_response"

\* C3: the body sent has exactly the keys orderId, shopId, sum, signature and
\* the wire key of every optional argument supplied, each with the argument's
\* value; no member is null; and the signature is generate_signature of the
\* body without its signature member.
C3_RequestBody ==
    InFlight =>
        /\ Keys(request) = {"orderId", "shopId", "sum", "signature"}
                             \cup {WireKey[a] : a \in SuppliedArgs(call.args)}
        /\ Len(request) = 4 + Cardinality(SuppliedArgs(call.args))
        /\ \A a \in SuppliedArgs(call.args) :
               Item(request, WireKey[a]) = call.args[a]
        /\ Item(request, "shopId") = call.args.shop_id
        /\ Item(request, "sum") = call.args.amount
        /\ \A i \in 1..Len(request) : request[i][2].t # "NoneType"
        /\ Item(request, "signature")
             = generate_signature(secret_key, Without(request, "signature"))

\* C3's case: a request in flight with some optional arguments supplied, others
\* (and the order id) left out
C3_Witness ==
    /\ InFlight
    /\ call.args.order_id.t = "NoneType"
    /\ SuppliedArgs(call.args) = {"comment", "expire", "include_service"}
    /\ Len(request) = 7

Answered == pc = "done" /\ call.op = "create_invoice"

IsObject(response) == response.json /\ response.body.t = "dict"

StatusOf(response) == Get(response.body.d, "status", PyInt("0"))

ErrorOf(response) == Get(response.body.d, "error", PyStr(""))

RaisedWith(exc, response) ==
    /\ Raised(exc)
    /\ result.code = StatusOf(response)
    /\ result.message = ErrorOf(response)

\* C4: an object response whose status is not 200 is classified by its status:
\* 422 with an object 'error' raises InvalidParameterException, 401 raises
\* InvalidSignatureException, any other status (absent: 0) raises
\* CreateInvoiceException; each carries the status as code and the raw 'error'
\* as message, and no InvoiceInfo is returned.
C4_ErrorStatus ==
    (Answered /\ IsObject(call.response)
              /\ ~ EqualsInt(StatusOf(call.response), "200")) =>
        LET st == StatusOf(call.response)
        IN  /\ ~ Returned
            /\ (EqualsInt(st, "422") /\ ErrorOf(call.response).t = "dict")
                 => RaisedWith("InvalidParameterException", call.response)
            /\ EqualsInt(st, "401")
                 => RaisedWith("InvalidSignatureException", call.response)
            /\ (~ EqualsInt(st, "422") /\ ~ EqualsInt(st, "401"))
                 => RaisedWith("CreateInvoiceException", call.response)

\* C4's case: a 401 response with an error text has raised the signature error
C4_Witness ==
    /\ Answered /\ IsObject(call.response)
    /\ EqualsInt(StatusOf(call.response), "401")
    /\ ErrorOf(call.response) = PyStr("Unauthorized")
    /\ Raised("InvalidSignatureException")
    /\ result.code = PyInt("401")

Is200(response) == IsObject(response) /\ EqualsInt(StatusOf(response), "200")

DataOf(response) == Get(response.body.d, "data", Absent)

WellFormedData(response) ==
    /\ DataOf(response).t = "dict"
    /\ RequiredDataKeys \subseteq Keys(DataOf(response).d)

\* C5: a status 200 response yields an InvoiceInfo exactly when 'data' is
\* present with id, amount, expired, status, shop_id and url, and otherwise
\* raises InvalidResponseException; the six members are the values of 'data',
\* merchant_name and comment default to "Merchant" and "Comment", and the two
\* service lists to the empty list.
C5_SuccessStatus ==
    (Answered /\ Is200(call.response)) =>
        LET data == DataOf(call.response).d
            info == result.value
        IN  /\ Returned <=> WellFormedData(call.response)
            /\ ~ WellFormedData(call.response)
                 => Raised("InvalidResponseException")
            /\ Returned =>
                 /\ info.invoice_id = Item(data, "id")
                 /\ info.amount = Item(data, "amount")
                 /\ info.expired = Item(data, "expired")
                 /\ info.status = Item(data, "status")
                 /\ info.shop_id = Item(data, "shop_id")
                 /\ info.url = Item(data, "url")
                 /\ ~ Has(data, "merchantName")
                      => info.merchant_name = PyStr("Merchant")
                 /\ ~ Has(data, "comment") => info.comment = PyStr("Comment")
                 /\ ~ Has(data, "include_service")
                      => info.include_service = PyList("[]")
                 /\ ~ Has(data, "exclude_service")
                      => info.exclude_service = PyList("[]")

\* C5's case: a 200 response whose 'data' lacks merchantName and
\* include_service has produced an InvoiceInfo with the defaults
C5_Witness ==
    /\ Answered /\ Is200(call.response) /\ Returned
    /\ ~ Has(DataOf(call.response).d, "merchantName")
    /\ ~ Has(DataOf(call.response).d, "include_service")
    /\ result.value.merchant_name = PyStr("Merchant")
    /\ result.value.include_service = PyList("[]")
    /\ result.value.invoice_id = PyStr("inv-1")

Outcomes ==
    {"InvalidParameterException", "InvalidSignatureException",
     "CreateInvoiceException", "InvalidResponseException"}

\* a response whose handling fails outside the three creation errors
Malformed(response) ==
    \/ ~ response.json
    \/ response.body.t # "dict"
    \/ /\ Is200(response)
       /\ DataOf(response).t \notin {"absent", "NoneType", "dict"}
    \/ /\ IsObject(response) /\ EqualsInt(StatusOf(response), "422")
       /\ ErrorOf(response).t # "dict"

\* C6: after the response, create_invoice has returned an InvoiceInfo or
\* raised one of InvalidParameterException, InvalidSignatureException,
\* CreateInvoiceException, InvalidResponseException; a body that is no JSON or
\* no object, a 'data' of the wrong shape and a 422 whose 'error' is no object
\* raise InvalidResponseException; every other response without status 200
\* raises a creation error, never InvalidResponseException.
C6_Outcomes ==
    Answered =>
        /\ Returned \/ (result.kind = "raise" /\ result.exc \in Outcomes)
        /\ Malformed(call.response) => Raised("InvalidResponseException")
        /\ (IsObject(call.response) /\ ~ Is200(call.response)
                                    /\ ~ Malformed(call.response))
             => (result.kind = "raise" /\ result.exc \in CreationErrors)

\* C6's case: a body that is no JSON has raised InvalidResponseException
C6_Witness ==
    /\ Answered
    /\ ~ call.response.json
    /\ Raised("InvalidResponseException")

---------------------------------------------------------------------------
(* Claims about generate_signature *)

SignedTwice == call.op = "generate_signature" /\ prev.called

\* C2: two calls of generate_signature on field maps with the same entries,
\* in whatever order they were inserted, return the same digest under the
\* same secret key, and the calls leave the secret key as it was.
C2_OrderIndependent ==
    SignedTwice =>
        /\ prev.key = secret_key
        /\ Entries(prev.fields) = Entries(call.fields)
             => prev.digest = result.value

\* C2's case: the same two entries signed in both insertion orders
C2_Witness ==
    /\ SignedTwice
    /\ Len(call.fields) = 2
    /\ Entries(prev.fields) = Entries(call.fields)
    /\ prev.fields # call.fields
    /\ prev.digest = result.value

---------------------------------------------------------------------------
(* Claims about handle_webhook *)

Webhooked == call.op = "handle_webhook"

\* the signature of the received body under the client's key
Genuine == generate_signature(secret_key, call.received_data)

\* the values of the headers named authorization, in any casing
AuthValues ==
    {call.headers[i][2] :
        i \in {j \in 1..Len(call.headers) :
                  Lower(call.headers[j][1]) = "authorization"}}

CorrectlySigned == AuthValues = {Genuine}

Receives(k) == Has(call.received_data, k)

Received(k) == Item(call.received_data, k)

\* C1: handle_webhook returns only if a header named authorization, in any
\* casing, carries the signature of the body under the client's key; with no
\* such header, whatever the body lacks or holds, it raises
\* InvalidWebhookSignatureException and nothing else.
C1_SignatureFirst ==
    Webhooked =>
        /\ Returned => Genuine \in AuthValues
        /\ Genuine \notin AuthValues
             => Raised("InvalidWebhookSignatureException")

\* C1's case: a body without invoice_id and with a null amount, under a forged
\* signature, has raised the signature error
C1_Witness ==
    /\ Webhooked
    /\ ~ Receives("invoice_id")
    /\ Receives("amount") /\ Received("amount") = PyNone
    /\ AuthValues # {} /\ Genuine \notin AuthValues
    /\ Raised("InvalidWebhookSignatureException")

\* a non-numeric string, null or a list
Uncoercible(k) ==
    /\ Receives(k)
    /\ \/ Received(k).t \in {"NoneType", "list"}
       \/ Received(k).t = "str" /\ Received(k).v \notin NumericStrings

Coercible(k) == Receives(k) /\ ~ Uncoercible(k)

\* 'payed' is left out or a string: the reading of the payment time ends
\* without an exception
PayedReadable == ~ Receives("payed") \/ Received("payed").t = "str"

\* C7, on bodies whose 'payed' is left out or a string: a correctly signed
\* body whose amount or credited cannot be coerced to a float raises
\* InvalidResponseException, and handle_webhook raises nothing but that and
\* InvalidWebhookSignatureException.
C7_UncoercibleAmount ==
    (Webhooked /\ PayedReadable) =>
        /\ (CorrectlySigned /\ (Uncoercible("amount") \/ Uncoercible("credited")))
             => Raised("InvalidResponseException")
        /\ result.kind = "raise"
             => result.exc \in {"InvalidWebhookSignatureException",
                                "InvalidResponseException"}

\* C8: in the SuccessfulInvoiceInfo of a correctly signed body, custom_field
\* is "" when the body has no custom_field and the received value otherwise,
\* and order_id is "" when the body has no order_id.
C8_CustomFieldDefault ==
    (Webhooked /\ CorrectlySigned /\ Returned) =>
        /\ ~ Receives("custom_field") => result.value.custom_field = PyStr("")
        /\ Receives("custom_field")
             => result.value.custom_field = Received("custom_field")
        /\ ~ Receives("order_id") => result.value.order_id = PyStr("")

WellTimed ==
    /\ Receives("payed")
    /\ Received("payed").t = "str"
    /\ Received("payed").v \in TimeStrings

\* C9: a correctly signed body with invoice_id, status and coercible amount
\* and credited succeeds whatever 'payed' holds: pay_time is the parsed time
\* when 'payed' is a string of the pattern and the current time otherwise.
C9_PayTimeDefault ==
    (Webhooked /\ CorrectlySigned /\ Receives("invoice_id") /\ Receives("status")
               /\ Coercible("amount") /\ Coercible("credited")) =>
        /\ Returned
        /\ result.value.pay_time
             = IF WellTimed THEN PyDateTime(Received("payed").v) ELSE Now

\* C10: a SuccessfulInvoiceInfo has payed exactly when its status is
\* "success" and carries the status of the body; a correctly signed body
\* without status or without invoice_id raises InvalidResponseException.
C10_PayedStatus ==
    Webhooked =>
        /\ Returned =>
             /\ result.value.payed <=> (result.value.status = PyStr("success"))
             /\ result.value.status = Received("status")
        /\ (CorrectlySigned /\ (~ Receives("status") \/ ~ Receives("invoice_id")))
             => Raised("InvalidResponseException")

===========================================================================
